---- MODULE Spec2Model ----
(***************************************************************************)
(* State-machine model of crypto_dashboard.py: the two fetch functions     *)
(* (status branching, recursive retry on 429, catch-all exception          *)
(* handler), the st.cache_data(ttl=600) memoisation of the market          *)
(* snapshot, the name filter / selectbox resolution and the five           *)
(* historical trend sections of one top-to-bottom script pass.             *)
(*                                                                         *)
(* Strings are sequences of one-character strings so that strip(),          *)
(* case folding and str.contains() are computed, not assumed.              *)
(***************************************************************************)
EXTENDS Integers, Sequences, FiniteSets, TLC

\* ------------------------------------------------------------------ bounds
\* Number of script passes (page loads / widget interactions) explored.
MaxPasses == 2
\* Interpreter recursion limit (CPython: sys.getrecursionlimit(), 1000 frames
\* by default), counted in nested fetch_* invocations: the invocation nested
\* this deep is the first that runs out of stack.
RecursionLimit == 4
\* Number of 429 answers a metered upstream gives over a run.
Max429 == 3

\* --------------------------------------------------------- program constants
TTL == 600
Backoff == 10

\* Seconds that may elapse between two passes (user think time).
Elapsed == {TTL - Backoff, TTL}

\* No run lasts longer than this: the passes, each with its think time and
\* the sleeps of its six fetch calls.
Horizon == MaxPasses * (TTL + 6 * RecursionLimit * Backoff)

\* ------------------------------------------------------------------ strings
Lower(c) ==
    CASE c = "B" -> "b"
      [] c = "C" -> "c"
      [] c = "E" -> "e"
      [] c = "T" -> "t"
      [] c = "H" -> "h"
      [] c = "I" -> "i"
      [] OTHER -> c

IsSpace(c) == c = " "

RECURSIVE LStrip(_)
LStrip(s) ==
    IF s # <<>> /\ IsSpace(Head(s)) THEN LStrip(Tail(s)) ELSE s

RECURSIVE RStrip(_)
RStrip(s) ==
    IF s # <<>> /\ IsSpace(s[Len(s)]) THEN RStrip(SubSeq(s, 1, Len(s) - 1)) ELSE s

\* Strip with the .strip() call left out.
Strip_None(s) == s

\* str.strip(): leading and trailing whitespace removed.
Strip(s) == RStrip(LStrip(s))

\* One pattern character against one subject character under re.IGNORECASE;
\* "." is the regular-expression wildcard.
CharMatches(p, c) == p = "." \/ Lower(p) = Lower(c)

\* The pattern matches the subject starting at position i.
MatchAt(pat, s, i) ==
    /\ i + Len(pat) - 1 <= Len(s)
    /\ \A k \in 1..Len(pat) : CharMatches(pat[k], s[i + k - 1])

\* Series.str.contains(pat, case=False): re.search(pat, s, re.IGNORECASE).
Contains(pat, s) == \E i \in 1..(Len(s) + 1) : MatchAt(pat, s, i)

\* ------------------------------------------------------------- upstream data
\* Coin objects of the listing; sparkline stands for sparkline_in_7d.price.
Bit  == [id |-> <<"b", "t">>, name |-> <<"B", "i", "t">>, symbol |-> <<"x">>,
         sparkline |-> <<3, 4>>]
BitC == [id |-> <<"b", "c">>, name |-> <<"B", "i", "t", " ", "C">>, symbol |-> <<"y">>,
         sparkline |-> <<5>>]
Eth  == [id |-> <<"q">>, name |-> <<"E", "t", "h">>, symbol |-> <<"z">>,
         sparkline |-> <<7, 8>>]

\* Bodies the /coins/markets endpoint may answer with (JSON arrays).
SnapBodies == {<<>>, <<Eth>>, <<Bit, BitC>>}

\* Raw text typed into the sidebar text_input.
RawQueries ==
    { <<>>, <<"b", "i", "t">>, <<" ", "E", "T", "H">> }

\* Columns of a non-empty market listing.
CoinColumns == {"id", "name", "symbol", "current_price", "total_volume", "sparkline_in_7d"}

\* pd.DataFrame(): no columns, no rows.
EmptyDF == [columns |-> {}, rows |-> <<>>]

\* pd.DataFrame(list of records): the columns are the keys of the records.
DataFrame(rows) == [columns |-> IF rows = <<>> THEN {} ELSE CoinColumns, rows |-> rows]

\* JSON objects of /market_chart, as the set of their keys and the prices list.
EmptyDict == [keys |-> {}, prices |-> <<>>]
PricesDict == [keys |-> {"prices", "market_caps"}, prices |-> <<<<1, 5>>, <<2, 6>>>>]
ErrorDict == [keys |-> {"error"}, prices |-> <<>>]
\* Objects a 200 of /market_chart may carry: the series, or an object without it.
HistBodies == {PricesDict, ErrorDict}

\* The historical windows requested, in script order.
Windows == <<1, 7, 30, 180, 365>>

\* ------------------------------------------------------------ HTTP responses
\* What requests.get() may produce: a response with a status code and a body,
\* or an exception (status 0). A 200 body is a JSON array, or is not JSON at
\* all, in which case response.json() raises.
NoBody == [json |-> "none", rows |-> <<>>, dict |-> EmptyDict]
ConnectionError == [status |-> 0, body |-> NoBody]
StatusOnly(code) == [status |-> code, body |-> NoBody]
NotJson == [status |-> 200, body |-> [json |-> "invalid", rows |-> <<>>, dict |-> EmptyDict]]

\* requests.get() raised RecursionError while reading the upstream's answer.
\* A connection that fails without an answer raises its own exception first.
RecursionError == [status |-> 0, body |-> [json |-> "recursion", rows |-> <<>>, dict |-> EmptyDict]]

SnapResponses ==
    { [status |-> 200, body |-> [json |-> "list", rows |-> b, dict |-> EmptyDict]] : b \in SnapBodies }
    \cup { NotJson, ConnectionError, StatusOnly(429), StatusOnly(401), StatusOnly(500) }

HistResponses ==
    { [status |-> 200, body |-> [json |-> "dict", rows |-> <<>>, dict |-> d]] : d \in HistBodies }
    \cup { NotJson, ConnectionError, StatusOnly(429), StatusOnly(401), StatusOnly(500) }

\* ------------------------------------------------------------------- state
VARIABLES
    pc,           \* position of the script pass
    now,          \* wall clock, seconds
    passes,       \* passes started so far
    cache,        \* the st.cache_data entry of fetch_crypto_data
    coin_name,    \* stripped sidebar text
    df,           \* market snapshot of this pass
    filtered_df,  \* resolved set of this pass
    call,         \* the fetch_* call in progress, or the one that just returned
    wire,         \* the HTTP request in flight: "none", "pending", "lost"
    win,          \* index into Windows of the trend section being fetched
    histReqs,     \* historical HTTP requests issued in this pass
    requested,    \* windows (days) for which a request was issued in this pass
    lastDetail,   \* coin id whose trend windows were fetched last
    again,        \* this pass fetches the windows of the coin the last such pass did
    populated,    \* windows whose chart was drawn in this pass
    shown,        \* elements of this pass's page (script body, history errors)
    readAt,       \* time of this pass's snapshot read
    throttled,    \* 429 answers a metered upstream has given so far
    sustained,    \* the upstream answers 429 to every request
    typed,        \* text in the sidebar text_input, as typed
    selectbox,    \* the selectbox on the page: "none", "default" or "chosen"
    candidates,   \* filtered_df after the name filter (lines 75-78)
    coin_options, \* entries offered by the selectbox in this pass
    selected_coin_id, \* id of the selectbox entry in effect in this pass
    sparkline_data    \* series drawn by the 1 hour trend section

vars == << pc, now, passes, cache, coin_name, df, filtered_df, call, wire, win,
           histReqs, requested, lastDetail, again, populated, shown, readAt,
           throttled, sustained, typed, selectbox, candidates, coin_options,
           selected_coin_id, sparkline_data >>

\* What the filter and selection of a pass leave behind.
resolution == << candidates, coin_options, selected_coin_id, sparkline_data >>

NoCall ==
    [fn |-> "none", coin_id |-> <<>>, days |-> 0, interval |-> "none", depth |-> 0,
     reqs |-> 0, sleeps |-> 0, warnings |-> 0, errors |-> 0, resps |-> <<>>,
     returned |-> FALSE, failed |-> FALSE, df |-> EmptyDF, dict |-> EmptyDict]

NoEntry == [present |-> FALSE, value |-> EmptyDF, storedAt |-> 0, failed |-> FALSE]

Init ==
    /\ pc = "idle"
    /\ now = 0
    /\ passes = 0
    /\ sustained = FALSE
    /\ cache = NoEntry
    /\ coin_name = <<>>
    /\ df = EmptyDF
    /\ filtered_df = EmptyDF
    /\ call = NoCall
    /\ wire = "none"
    /\ win = 0
    /\ histReqs = 0
    /\ requested = {}
    /\ lastDetail = <<>>
    /\ again = FALSE
    /\ populated = {}
    /\ shown = {}
    /\ readAt = 0
    /\ throttled = 0
    /\ selectbox = "none"
    /\ typed = <<>>
    /\ candidates = EmptyDF
    /\ coin_options = <<>>
    /\ selected_coin_id = <<>>
    /\ sparkline_data = <<>>

\* ------------------------------------------------------------- fetch helpers
\* Interval with the comparison of line 42 never true (days == 1 on a string).
Interval_AlwaysDaily(days) == "daily"

\* params["interval"] of fetch_historical_data.
Interval(days) == IF days = 1 THEN "minute" ELSE "daily"

\* A fresh invocation of a fetch function, its requests.get() just issued.
NewCall(fn, coin_id, days) ==
    [NoCall EXCEPT !.fn = fn, !.coin_id = coin_id, !.days = days,
                   !.interval = IF fn = "historical" THEN Interval(days) ELSE "none",
                   !.depth = 1, !.reqs = 1]

\* Outcome with every HTTP error status treated like 429.
Outcome_RetryAnyError(r) ==
    IF r.status = 0 THEN "exception"
    ELSE IF r.status = 200
         THEN (IF r.body.json = "invalid" THEN "exception" ELSE "ok")
    ELSE IF r.status = 401 THEN "unauthorized"
    ELSE "retry"

\* The branch of the try block a response takes. requests.get() raising and
\* response.json() raising both land in the except clause.
Outcome(r) ==
    IF r.status = 0 THEN "exception"
    ELSE IF r.status = 200
         THEN (IF r.body.json = "invalid" THEN "exception" ELSE "ok")
    ELSE IF r.status = 429 THEN "retry"
    ELSE IF r.status = 401 THEN "unauthorized"
    ELSE "http_error"

\* Counters of one call; none can pass the recursion limit.
Inc(n) == IF n < RecursionLimit THEN n + 1 ELSE n

Received(c, r) ==
    [c EXCEPT !.resps = IF Len(@) < RecursionLimit THEN Append(@, r) ELSE @]

\* return pd.DataFrame(response.json()) / return response.json()
ReturnOk(c, r) ==
    [c EXCEPT !.returned = TRUE,
              !.df = IF c.fn = "snapshot" THEN DataFrame(r.body.rows) ELSE EmptyDF,
              !.dict = IF c.fn = "historical" THEN r.body.dict ELSE EmptyDict]

\* st.error(...); return pd.DataFrame() / return {}
ReturnError(c) ==
    [c EXCEPT !.returned = TRUE, !.failed = TRUE, !.errors = Inc(@)]

\* RateLimited with the retry request sent off before the sleep.
RateLimited_EagerRetry(c) == [c EXCEPT !.warnings = Inc(@), !.reqs = Inc(@)]

\* st.warning("Rate limit exceeded..."), then time.sleep(10) begins.
RateLimited(c) == [c EXCEPT !.warnings = Inc(@)]

\* time.sleep(10) is over.
Slept(c) == [c EXCEPT !.sleeps = Inc(@)]

\* The clock after time.sleep(10).
AfterSleep(t) == IF t + Backoff < Horizon THEN t + Backoff ELSE Horizon

\* The recursive call: one more frame, one more requests.get().
Recurse(c) == [c EXCEPT !.depth = Inc(@), !.reqs = Inc(@)]

\* The invocation is nested so deep that it runs out of stack. Where exactly
\* RecursionError is raised depends on the interpreter and the libraries: in
\* requests.get() during connection set-up, before anything is sent
\* (HistRecursionEarly, SnapRecursionEarly), or after the request was sent and
\* answered, while the answer is read or reported (HistRecursionError,
\* SnapRecursionError). Either way an except Exception of the function catches
\* it, reports one error and returns the empty result.
RecursionExceeded(c) == c.depth >= RecursionLimit

\* requests.get() gets as far as reading a response: the upstream answered
\* with a status line and headers.
Answered(r) == r.status # 0

\* The upstream may answer r now: under sustained rate-limiting every answer
\* is a 429, otherwise at most Max429 answers are.
MayAnswer(r) ==
    IF sustained THEN r.status = 429 ELSE (r.status = 429 => throttled < Max429)

Metered(r) == IF r.status = 429 /\ ~sustained THEN throttled + 1 ELSE throttled

\* ---------------------------------------------------------------- the cache
\* CacheValid without the ttl argument.
CacheValid_NoExpiry(entry, t) == entry.present

\* CacheValid with the TTL counted twice.
CacheValid_DoubleTTL(entry, t) == entry.present /\ t < entry.storedAt + 2 * TTL

\* st.cache_data(ttl=600): the entry is served while younger than the TTL.
CacheValid(entry, t) == entry.present /\ t < entry.storedAt + TTL

\* Stored for a cache that keeps successful results only.
Stored_SuccessOnly(c, t) ==
    IF c.failed THEN NoEntry
    ELSE [present |-> TRUE, value |-> c.df, storedAt |-> t, failed |-> FALSE]

\* The entry a finished fetch_crypto_data call leaves in the cache.
Stored(c, t) ==
    [present |-> TRUE, value |-> c.df, storedAt |-> t, failed |-> c.failed]

\* fetch_crypto_data returned c at time t: memoise, assign df, go on to filter.
SnapReturn(c, t) ==
    /\ cache' = Stored(c, t)
    /\ df' = c.df
    /\ call' = c
    /\ wire' = "none"
    /\ pc' = "filter"

\* ------------------------------------------------------------- script: top
ElapsedChoices == IF passes = 0 THEN {0} ELSE Elapsed

BeginPass(raw, t) ==
    /\ pc \in {"idle", "done", "crashed"}
    /\ passes < MaxPasses
    /\ passes' = passes + 1
    /\ now' = t
    /\ readAt' = t
    /\ coin_name' = Strip(raw)
    /\ filtered_df' = EmptyDF
    /\ win' = 0
    /\ histReqs' = 0
    /\ requested' = {}
    /\ again' = FALSE
    /\ UNCHANGED lastDetail
    /\ populated' = {}
    /\ shown' = {}
    /\ typed' = raw
    /\ candidates' = EmptyDF
    /\ coin_options' = <<>>
    /\ selected_coin_id' = <<>>
    /\ sparkline_data' = <<>>
    /\ UNCHANGED << throttled, selectbox, sustained >>

\* df = fetch_crypto_data() served from the cache.
PassHit(raw, d) ==
    /\ BeginPass(raw, now + d)
    /\ CacheValid(cache, now + d)
    /\ df' = cache.value
    /\ call' = NoCall
    /\ wire' = "none"
    /\ pc' = "filter"
    /\ UNCHANGED cache

\* df = fetch_crypto_data() with no valid entry: the function body runs.
PassMiss(raw, d) ==
    /\ BeginPass(raw, now + d)
    /\ ~CacheValid(cache, now + d)
    /\ call' = NewCall("snapshot", <<>>, 0)
    /\ wire' = "pending"
    /\ df' = EmptyDF
    /\ pc' = "snap_wait"
    /\ UNCHANGED cache

\* ------------------------------------------------- fetch_crypto_data (body)
SnapRespond(r) ==
    /\ pc = "snap_wait"
    /\ wire = "pending"
    /\ ~RecursionExceeded(call) \/ ~Answered(r)
    /\ MayAnswer(r)
    /\ throttled' = Metered(r)
    /\ LET c == Received(call, r)
           o == Outcome(r)
       IN IF o = "retry"
          THEN /\ call' = RateLimited(c)
               /\ wire' = "none"
               /\ pc' = "snap_sleep"
               /\ UNCHANGED << cache, df >>
          ELSE IF o = "ok"
          THEN SnapReturn(ReturnOk(c, r), now)
          ELSE SnapReturn(ReturnError(c), now)
    /\ UNCHANGED << now, passes, coin_name, filtered_df, win, histReqs, requested,
                    lastDetail, again, populated, shown, readAt, sustained,
                    typed, selectbox, resolution >>

\* time.sleep(10) is over and line 26 calls fetch_crypto_data() again. The
\* name is bound to the st.cache_data wrapper, so the nested call goes through
\* the wrapper for the key whose value the outer invocation is still
\* computing. What the wrapper does then is decided by the Streamlit that is
\* installed, not by this file: it may find no entry and run the body again
\* (SnapRetry), or wait for the lock it holds on the key while the value is
\* computed (SnapBlocked). The wrapper's frames also take stack, so close to
\* the recursion limit the nested call may fail before its request is sent
\* (SnapRecursionEarly).
\*
\* The wrapper lets the nested call through: the body runs and issues its
\* request.
SnapRetry ==
    /\ pc = "snap_sleep"
    /\ now' = AfterSleep(now)
    /\ call' = Recurse(Slept(call))
    /\ wire' = "pending"
    /\ pc' = "snap_wait"
    /\ UNCHANGED << passes, cache, coin_name, df, filtered_df, win, histReqs,
                    requested, lastDetail, again, populated, shown, readAt, throttled,
                    sustained, typed, selectbox, resolution >>

\* The wrapper holds a lock on the key until the outer invocation returns, and
\* the outer invocation waits for the nested call: neither ever returns. A
\* wrapper that blocks does so on the first nested call.
SnapBlocked ==
    /\ pc = "snap_sleep"
    /\ call.depth = 1
    /\ now' = AfterSleep(now)
    /\ call' = Slept(call)
    /\ wire' = "none"
    /\ pc' = "snap_blocked"
    /\ UNCHANGED << passes, cache, coin_name, df, filtered_df, win, histReqs,
                    requested, lastDetail, again, populated, shown, readAt, throttled,
                    sustained, typed, selectbox, resolution >>

\* The nested call would be the deepest one and RecursionError is raised in
\* the wrapper's frames or on the way into requests.get(), before any request
\* is sent. That is outside the nested invocation's try block but inside the
\* try block of the invocation that made the call (line 26 lies within lines
\* 19-31), whose except Exception reports the error and returns the empty
\* frame.
SnapRecursionEarly ==
    /\ pc = "snap_sleep"
    /\ RecursionExceeded(Recurse(Slept(call)))
    /\ now' = AfterSleep(now)
    /\ SnapReturn(ReturnError(Slept(call)), AfterSleep(now))
    /\ UNCHANGED << passes, coin_name, filtered_df, win, histReqs, requested,
                    lastDetail, again, populated, shown, readAt, throttled,
                    sustained, typed, selectbox, resolution >>

\* The deepest invocation got as far as requests.get(): the upstream answers
\* its request and the answer is lost in the RecursionError raised while it is
\* read, which the invocation's except Exception catches.
SnapRecursionError(r) ==
    /\ pc = "snap_wait"
    /\ wire = "pending"
    /\ RecursionExceeded(call)
    /\ Answered(r)
    /\ MayAnswer(r)
    /\ throttled' = Metered(r)
    /\ SnapReturn(ReturnError(Received(call, RecursionError)), now)
    /\ UNCHANGED << now, passes, coin_name, filtered_df, win, histReqs, requested,
                    lastDetail, again, populated, shown, readAt, sustained, typed,
                    selectbox, resolution >>

\* ------------------------------------------------- script: filter and render
\* df["name"] raises KeyError on a frame that has no such column.
HasColumn(d, col) == col \in d.columns

\* df[df["name"].str.contains(coin_name, case=False)]
NameFilter(d, q) ==
    [columns |-> d.columns, rows |-> SelectSeq(d.rows, LAMBDA r : Contains(q, r.name))]

\* Candidates with the query never applied.
Candidates_Unfiltered(d, q) == d

\* The candidate set of the name filter (lines 75-78).
Candidates(d, q) == IF q # <<>> THEN NameFilter(d, q) ELSE d

\* IdFilter resolving the selection by the name of the entry, not its id.
IdFilter_ByName(d, id) ==
    [columns |-> d.columns,
     rows |-> SelectSeq(d.rows, LAMBDA r :
                  \E k \in 1..Len(d.rows) :
                      d.rows[k].id = id /\ Contains(d.rows[k].name, r.name))]

\* df[df['id'] == selected_coin_id]
IdFilter(d, id) ==
    [columns |-> d.columns, rows |-> SelectSeq(d.rows, LAMBDA r : r.id = id)]

\* One selectbox entry: the record projected to id, name and symbol.
Entry(r) == [id |-> r.id, name |-> r.name, symbol |-> r.symbol]

\* filtered_df[['id', 'name', 'symbol']].reset_index(drop=True).to_dict(
\* orient='records'): the candidates, projected, in order.
Options(cand) == [k \in 1..Len(cand.rows) |-> Entry(cand.rows[k])]

\* The resolved set after the if/elif/else of lines 81-93; i is the index of
\* the selectbox entry in effect (the widget always holds one entry).
Resolved(d, cand, i) ==
    IF Len(cand.rows) > 1 THEN IdFilter(d, Options(cand)[i].id) ELSE cand

\* What lines 81-105 write to the page.
Rendered(cand, f) ==
    (IF Len(cand.rows) > 1 THEN {"multiple", "selectbox"}
     ELSE IF Len(cand.rows) = 1 THEN {} ELSE {"no_coins"})
    \cup (IF f.rows # <<>> THEN {"price"} ELSE {})
    \cup (IF {"name", "current_price", "total_volume"} \subseteq f.columns
          THEN {"table"} ELSE {"missing_columns"})

\* `if len(filtered_df) == 1:` - the trend sections run.
ShowsDetail(f) == Len(f.rows) = 1

\* HistCached had fetch_historical_data been memoised like fetch_crypto_data.
HistCached_Memo(coin_id, days) == again

\* fetch_historical_data carries no cache decorator: no call is served from
\* an earlier result.
HistCached(coin_id, days) == FALSE

\* fetch_historical_data(coin_id, Windows[k]) is entered and its request issued.
StartWindow(k, coin_id) ==
    /\ win' = k
    /\ IF HistCached(coin_id, Windows[k])
       THEN /\ call' = [NewCall("historical", coin_id, Windows[k])
                          EXCEPT !.reqs = 0, !.returned = TRUE]
            /\ wire' = "none"
            /\ pc' = "hist_ret"
            /\ UNCHANGED << histReqs, requested >>
       ELSE /\ call' = NewCall("historical", coin_id, Windows[k])
            /\ wire' = "pending"
            /\ histReqs' = histReqs + 1
            /\ requested' = requested \cup {Windows[k]}
            /\ pc' = "hist_wait"

\* st.success(...): the pass ran to its last line.
Finish ==
    /\ pc' = "done"
    /\ call' = NoCall
    /\ wire' = "none"

\* Lines 74-76 when the name filter raises: the pass ends with a KeyError.
FilterCrash ==
    /\ pc = "filter"
    /\ coin_name # <<>>
    /\ ~HasColumn(df, "name")
    /\ pc' = "crashed"
    /\ selectbox' = "none"
    /\ UNCHANGED << now, passes, cache, coin_name, df, filtered_df, call, wire, win,
                    histReqs, requested, lastDetail, again, populated, shown, readAt,
                    throttled, sustained, typed, resolution >>

\* The selectbox entry in effect. The widget holds its first entry until the
\* user picks one (i = 0: no pick), and the user can pick only in a selectbox
\* that the page of the pass before already showed.
Picks(cand) ==
    IF Len(cand.rows) > 1 /\ selectbox # "none" THEN 0..Len(cand.rows) ELSE {0}

Index(i) == IF i = 0 THEN 1 ELSE i

\* Lines 74-123: filter, selection, price, table, and the first trend fetch.
FilterAndRender(i) ==
    /\ pc = "filter"
    /\ coin_name = <<>> \/ HasColumn(df, "name")
    /\ LET cand == Candidates(df, coin_name)
       IN /\ i \in Picks(cand)
          /\ candidates' = cand
          /\ coin_options' = IF Len(cand.rows) > 1 THEN Options(cand) ELSE <<>>
          /\ selected_coin_id' =
                 IF Len(cand.rows) > 1 THEN Options(cand)[Index(i)].id ELSE <<>>
          /\ selectbox' = IF Len(cand.rows) > 1
                          THEN (IF i = 0 THEN "default" ELSE "chosen")
                          ELSE "none"
          /\ LET f == Resolved(df, cand, Index(i))
             IN /\ filtered_df' = f
                /\ IF ShowsDetail(f)
                   THEN /\ shown' = Rendered(cand, f) \cup {"detail"}
                        /\ sparkline_data' = f.rows[1].sparkline
                        /\ StartWindow(1, f.rows[1].id)
                        /\ lastDetail' = f.rows[1].id
                        /\ again' = (lastDetail = f.rows[1].id)
                   ELSE /\ shown' = Rendered(cand, f) \cup {"success"}
                        /\ sparkline_data' = <<>>
                        /\ Finish
                        /\ UNCHANGED << win, histReqs, requested, lastDetail, again >>
    /\ UNCHANGED << now, passes, cache, coin_name, df, populated, readAt,
                    throttled, sustained, typed >>

\* --------------------------------------------- script: the trend sections
\* Truthy for a test such as `if historical_data is not None:`.
Truthy_Always(d) == TRUE

\* `if historical_data:` - a non-empty dict is truthy.
Truthy(d) == d.keys # {}

\* Lines 124-129 and their four copies, then the next section's fetch or the
\* end of the script. historical_data["prices"] raises KeyError when absent.
TrendSection ==
    /\ pc = "hist_ret"
    /\ IF Truthy(call.dict) /\ ~("prices" \in call.dict.keys)
       THEN /\ pc' = "crashed"
            /\ UNCHANGED << call, wire, win, histReqs, requested, populated, shown >>
       ELSE /\ populated' = IF Truthy(call.dict) THEN populated \cup {call.days}
                                                 ELSE populated
            /\ IF win < Len(Windows)
               THEN /\ StartWindow(win + 1, call.coin_id)
                    /\ UNCHANGED shown
               ELSE /\ Finish
                    /\ shown' = shown \cup {"success"}
                    /\ UNCHANGED << win, histReqs, requested >>
    /\ UNCHANGED << now, passes, cache, coin_name, df, filtered_df, lastDetail,
                    again, readAt, throttled, sustained,
                    typed, selectbox, resolution >>

\* ---------------------------------------------- fetch_historical_data (body)
\* fetch_historical_data returns c; its st.error(...), if any, is on the page.
HistReturn(c) ==
    /\ call' = c
    /\ wire' = "none"
    /\ pc' = "hist_ret"
    /\ shown' = IF c.failed THEN shown \cup {"history_error"} ELSE shown

HistRespond(r) ==
    /\ pc = "hist_wait"
    /\ wire = "pending"
    /\ ~RecursionExceeded(call) \/ ~Answered(r)
    /\ MayAnswer(r)
    /\ throttled' = Metered(r)
    /\ LET c == Received(call, r)
           o == Outcome(r)
       IN IF o = "retry"
          THEN /\ call' = RateLimited(c)
               /\ wire' = "none"
               /\ pc' = "hist_sleep"
               /\ UNCHANGED shown
          ELSE IF o = "ok"
          THEN HistReturn(ReturnOk(c, r))
          ELSE HistReturn(ReturnError(c))
    /\ UNCHANGED << now, passes, cache, coin_name, df, filtered_df, win, histReqs,
                    requested, lastDetail, again, populated, readAt, sustained,
                    typed, selectbox, resolution >>

\* time.sleep(10) is over: the nested fetch_historical_data call issues its
\* request.
HistRetry ==
    /\ pc = "hist_sleep"
    /\ now' = AfterSleep(now)
    /\ call' = Recurse(Slept(call))
    /\ wire' = "pending"
    /\ pc' = "hist_wait"
    /\ histReqs' = IF histReqs < Len(Windows) * RecursionLimit THEN histReqs + 1
                   ELSE histReqs
    /\ UNCHANGED << passes, cache, coin_name, df, filtered_df, win, requested,
                    lastDetail, again, populated, shown, readAt, throttled,
                    sustained, typed, selectbox, resolution >>

\* The nested call would be the deepest one: its requests.get() raises
\* RecursionError while the connection is set up, before anything is sent, and
\* lines 58-60 report one error and return {}.
HistRecursionEarly ==
    /\ pc = "hist_sleep"
    /\ RecursionExceeded(Recurse(Slept(call)))
    /\ now' = AfterSleep(now)
    /\ HistReturn(ReturnError(Slept(call)))
    /\ UNCHANGED << passes, cache, coin_name, df, filtered_df, win, histReqs,
                    requested, lastDetail, again, populated, readAt, throttled,
                    sustained, typed, selectbox, resolution >>

\* The deepest invocation's request was sent: the answer is lost in the
\* RecursionError raised while it is read.
HistRecursionError(r) ==
    /\ pc = "hist_wait"
    /\ wire = "pending"
    /\ RecursionExceeded(call)
    /\ Answered(r)
    /\ MayAnswer(r)
    /\ throttled' = Metered(r)
    /\ HistReturn(ReturnError(Received(call, RecursionError)))
    /\ UNCHANGED << now, passes, cache, coin_name, df, filtered_df, win, histReqs,
                    requested, lastDetail, again, populated, readAt, sustained,
                    typed, selectbox, resolution >>

\* ------------------------------------------------------------- the upstream
\* The upstream never answers the request in flight. requests.get() is called
\* without a timeout argument, so nothing in the program ends the wait.
Drop ==
    /\ wire = "pending"
    /\ wire' = "lost"
    /\ UNCHANGED << pc, now, passes, cache, coin_name, df, filtered_df, call, win,
                    histReqs, requested, lastDetail, again, populated, shown, readAt,
                    throttled, sustained,
                    typed, selectbox, resolution >>

Respond ==
    \/ \E r \in SnapResponses : SnapRespond(r)
    \/ \E r \in SnapResponses : SnapRecursionError(r)
    \/ \E r \in HistResponses : HistRespond(r)
    \/ \E r \in HistResponses : HistRecursionError(r)

Wake ==
    \/ SnapRetry
    \/ SnapBlocked
    \/ SnapRecursionEarly
    \/ HistRetry
    \/ HistRecursionEarly

\* What the user may have done to the selectbox: nothing (0), or picked the
\* entry at a position.
SelectboxIndices == 0..Len(df.rows)

\* Lines 74-105 and the first trend section.
Resolve ==
    \/ FilterCrash
    \/ \E i \in SelectboxIndices : FilterAndRender(i)

Script ==
    \/ Resolve
    \/ TrendSection

StartPass ==
    \/ \E raw \in RawQueries, d \in ElapsedChoices : PassHit(raw, d)
    \/ \E raw \in RawQueries, d \in ElapsedChoices : PassMiss(raw, d)

Next == StartPass \/ Respond \/ Wake \/ Script \/ Drop

Spec == Init /\ [][Next]_vars

\* ------------------------------------------------- the filter on its own
\* Listings and sidebar texts for the filter and selection taken alone: three
\* records in either order, names sharing a prefix, texts with blanks, upper
\* case, a regular-expression wildcard, and texts equal to a symbol or an id.
ResolveBodies ==
    { <<>>, <<Eth>>, <<Bit>>, <<Bit, BitC>>, <<BitC, Bit>>, <<Bit, Eth, BitC>>,
      <<Eth, BitC, Bit>> }

ResolveQueries ==
    { <<>>, <<" ">>, <<" ", " ">>, <<"b", "i", "t">>, <<"B", "I", "T", " ">>,
      <<" ", "E", "T", "H">>, <<"t">>, <<"t", " ", "c">>, <<".">>, <<"b", ".", "t">>,
      <<"x">>, <<"q">>, <<"b", "t">> }

\* The script at line 74 of some pass: the snapshot read, the text stripped.
ResolveInit ==
    /\ pc = "filter"
    /\ now = 0
    /\ passes = 1
    /\ sustained = FALSE
    /\ \E b \in ResolveBodies :
           /\ df = DataFrame(b)
           /\ cache = [present |-> TRUE, value |-> DataFrame(b), storedAt |-> 0,
                       failed |-> FALSE]
    /\ typed \in ResolveQueries
    /\ coin_name = Strip(typed)
    /\ selectbox \in {"none", "default"}
    /\ filtered_df = EmptyDF
    /\ call = NoCall
    /\ wire = "none"
    /\ win = 0
    /\ histReqs = 0
    /\ requested = {}
    /\ lastDetail = <<>>
    /\ again = FALSE
    /\ populated = {}
    /\ shown = {}
    /\ readAt = 0
    /\ throttled = 0
    /\ candidates = EmptyDF
    /\ coin_options = <<>>
    /\ selected_coin_id = <<>>
    /\ sparkline_data = <<>>

ResolveSpec == ResolveInit /\ [][Resolve]_vars

\* One more pass to go, from any state the cache can be in after earlier
\* passes, against a metered upstream or one that answers 429 to every request.
SeedEntries ==
    { NoEntry }
    \cup { [present |-> TRUE, value |-> DataFrame(b), storedAt |-> 0, failed |-> FALSE] :
           b \in SnapBodies }
    \cup { [present |-> TRUE, value |-> EmptyDF, storedAt |-> 0, failed |-> TRUE] }

LiveInit ==
    /\ pc = "idle"
    /\ now = 0
    /\ cache \in SeedEntries
    /\ coin_name = <<>>
    /\ df = EmptyDF
    /\ filtered_df = EmptyDF
    /\ call = NoCall
    /\ wire = "none"
    /\ win = 0
    /\ histReqs = 0
    /\ requested = {}
    /\ lastDetail = <<>>
    /\ again = FALSE
    /\ populated = {}
    /\ shown = {}
    /\ readAt = 0
    /\ throttled = 0
    /\ passes = MaxPasses - 1
    /\ sustained \in BOOLEAN
    /\ selectbox \in {"none", "default", "chosen"}
    /\ typed = <<>>
    /\ candidates = EmptyDF
    /\ coin_options = <<>>
    /\ selected_coin_id = <<>>
    /\ sparkline_data = <<>>

\* A response arrives for every request the upstream does not drop; sleeps end
\* and the script runs on.
LiveSpec ==
    LiveInit /\ [][Next]_vars /\ WF_vars(Respond) /\ WF_vars(Wake) /\ WF_vars(Script)

\* ================================================================== claims
Running == pc \in {"snap_wait", "snap_sleep", "filter", "hist_wait", "hist_sleep", "hist_ret"}
PassEnded == pc \in {"done", "crashed"}
AfterRead == pc \in {"filter", "hist_wait", "hist_sleep", "hist_ret", "done", "crashed"}
AllWindows == { Windows[k] : k \in 1..Len(Windows) }

\* A response that is neither a decodable 200 nor a 429.
IsTerminalFailure(r) ==
    \/ r.status \notin {200, 429}
    \/ r.status = 200 /\ r.body.json = "invalid"

\* C1: a 429 is retried exactly once - no call of either fetch function issues
\* more than two HTTP requests or sleeps more than once. The code recurses on
\* every 429, so this is violated (429, 429, then anything).
C1_RetriedOnce == call.reqs <= 2 /\ call.sleeps <= 1

\* C2: every pass eventually completes - it reaches its last line - unless
\* the upstream leaves a request unanswered, also when the upstream answers
\* 429 to every request. Violated: a snapshot fetch that is answered 429 calls
\* the cached function from within itself and may wait on the cache's lock
\* for ever, and a pass that raises KeyError (see C6) stops short of its last
\* line.
C2_PassCompletes == (Running /\ wire # "lost") ~> (pc = "done" \/ wire = "lost")

\* C3: a request the upstream never answers eventually fails with a timeout,
\* so the fetch call returns. requests.get() is given no timeout: violated.
C3_TimesOut == (wire = "lost") ~> (call.returned \/ PassEnded)

\* A call that has returned after a 429 and a decodable 200 returned the
\* decoded body of the 200 after exactly two requests, one sleep and one
\* warning, with no error message.
ReturnedAfterRetry ==
    ( /\ call.returned
      /\ Len(call.resps) = 2
      /\ call.resps[1].status = 429
      /\ call.resps[2].status = 200
      /\ call.resps[2].body.json # "invalid" )
    => /\ call.reqs = 2
       /\ call.sleeps = 1
       /\ call.warnings = 1
       /\ call.errors = 0
       /\ ~call.failed
       /\ call.fn = "snapshot" =>
              /\ call.df = DataFrame(call.resps[2].body.rows)
              /\ df = call.df
       /\ call.fn = "historical" => call.dict = call.resps[2].body.dict

\* A call whose first request was answered 429 sends its second request as
\* soon as the backoff sleep is over.
SecondRequestSent ==
    (call.fn # "none" /\ ~call.returned /\ call.sleeps = 1) => call.reqs = 2

\* C4: for either fetch function, a 429 followed by a decodable 200 - the call
\* sends its second request after one sleep and returns the decoded body of
\* the 200 after exactly two requests, one sleep and one warning, with no
\* error message. Violated for fetch_crypto_data: its retry is a call of the
\* cached function from within itself, which may wait on the cache's lock
\* without ever sending the second request.
C4_RetryThenSuccess == ReturnedAfterRetry /\ SecondRequestSent

\* C5: a 401, any other status than 200/429/401, and an exception of the
\* request or of the decoding end the call - the response is the call's last,
\* no request and no sleep follow it, exactly one error message is reported
\* and the empty result is returned.
C5_TerminalErrors ==
    \A k \in 1..Len(call.resps) :
        IsTerminalFailure(call.resps[k]) =>
            /\ k = Len(call.resps)
            /\ call.returned
            /\ call.failed
            /\ call.errors = 1
            /\ call.reqs = k
            /\ call.sleeps = k - 1
            /\ wire = "none"
            /\ call.df = EmptyDF
            /\ call.dict = EmptyDict
            /\ (call.fn = "snapshot" /\ pc = "filter") => df = EmptyDF

\* A call has ended on a 401 that answered its retry.
C5_Witness ==
    /\ call.returned
    /\ call.failed
    /\ Len(call.resps) = 2
    /\ call.resps[1].status = 429
    /\ call.resps[2].status = 401

\* The snapshot of this pass is the empty result of a failed fetch.
SnapshotFailed == AfterRead /\ cache.present /\ cache.failed /\ df = cache.value

\* C6: a failed fetch never becomes an unhandled fault - after a failed
\* snapshot fetch the pass runs to its end and shows "no data" for every
\* query, and after a failed historical fetch the pass runs on. The name
\* filter raises KeyError on the column-less empty frame: violated.
C6_FailedFetchDegrades ==
    /\ SnapshotFailed => pc # "crashed"
    /\ (SnapshotFailed /\ pc = "done") =>
           ("no_coins" \in shown /\ filtered_df.rows = <<>> /\ histReqs = 0)
    /\ (pc = "crashed" /\ call.fn = "historical") => ~call.failed

\* C7: a snapshot read within the TTL of the cache entry returns the entry's
\* value - the value the previous read returned - and issues no request; the
\* first read after expiry starts one fetch_crypto_data call, which issues
\* one request, and another one only after a 429.
C7_CacheWithinTTL ==
    [][ /\ (passes' = passes + 1) =>
              IF cache.present /\ now' < cache.storedAt + TTL
              THEN /\ df' = cache.value
                   /\ PassEnded => df' = df
                   /\ wire' = "none"
                   /\ call'.reqs = 0
                   /\ cache' = cache
              ELSE /\ wire' = "pending"
                   /\ call'.fn = "snapshot"
                   /\ call'.reqs = 1
        /\ (pc \in {"snap_wait", "snap_sleep"} /\ pc' = "filter") =>
              /\ call'.reqs = Len(call'.resps)
              /\ \A k \in 1..(call'.reqs - 1) : call'.resps[k].status = 429
              /\ cache'.storedAt = now'
              /\ cache'.value = df'
      ]_vars

\* The second pass was served the two-coin snapshot from the cache.
C7_Witness ==
    /\ passes = 2
    /\ pc = "filter"
    /\ call = NoCall
    /\ df = DataFrame(<<Bit, BitC>>)
    /\ readAt > cache.storedAt

\* C8: no pass is handed a stale snapshot - the snapshot of the pass is the
\* cache entry's value, stored at most TTL before the pass read it.
C8_NeverStale ==
    AfterRead =>
        /\ cache.present
        /\ df = cache.value
        /\ readAt - cache.storedAt <= TTL

\* A pass was served an entry one sleep short of its expiry.
C8_Witness ==
    /\ pc = "filter"
    /\ call = NoCall
    /\ readAt - cache.storedAt = TTL - Backoff

\* C9: historical series are never cached - a pass that runs to its end with
\* one selected coin has issued a request for each of the five windows, also
\* when the last pass that fetched windows fetched them for the same coin.
C9_HistoryNeverCached ==
    (pc = "done" /\ Len(filtered_df.rows) = 1) =>
        /\ requested = AllWindows
        /\ histReqs >= Len(Windows)

\* A pass fetched all five windows of the coin the pass before it had fetched.
C9_Witness ==
    /\ pc = "done"
    /\ again
    /\ Len(filtered_df.rows) = 1
    /\ requested = AllWindows

\* No record of the snapshot matches the non-empty query.
NoMatch ==
    /\ coin_name # <<>>
    /\ df.rows # <<>>
    /\ \A k \in 1..Len(df.rows) : ~Contains(coin_name, df.rows[k].name)

\* C10: a historical request is issued only in a pass whose resolved set has
\* exactly one record, and for that record; a pass whose query matches no
\* record of a non-empty snapshot issues none.
C10_HistoryOnlyForOne ==
    /\ (histReqs > 0 \/ call.fn = "historical") =>
           /\ Len(filtered_df.rows) = 1
           /\ call.fn = "historical" => call.coin_id = filtered_df.rows[1].id
    /\ (AfterRead /\ NoMatch) => (histReqs = 0 /\ requested = {} /\ call.fn # "historical")

\* A pass has ended on a query that matched nothing, with no historical request.
C10_Witness ==
    /\ pc = "done"
    /\ NoMatch
    /\ "no_coins" \in shown
    /\ histReqs = 0

\* C11: when the query (the empty one included) matches more than one record,
\* the pass shows no per-coin detail and issues no historical request unless
\* the user has picked an entry of the selectbox; without a pick, detail is
\* reached only when the name filter leaves exactly one record. The selectbox
\* holds its first entry before any pick and the script resolves to it:
\* violated by the first pass over a snapshot of two records.
C11_ExplicitDisambiguation ==
    ("detail" \in shown \/ histReqs > 0 \/ call.fn = "historical") =>
        \/ Len(candidates.rows) = 1
        \/ Len(candidates.rows) > 1 /\ selectbox = "chosen"

\* The name filter and the selection of this pass have run.
FilterRan == pc \in {"hist_wait", "hist_sleep", "hist_ret", "done"} \/ "detail" \in shown

\* lower(q) is a substring of lower(s), character by character.
IsSubstring(q, s) ==
    \E i \in 1..(Len(s) + 1) :
        /\ i + Len(q) - 1 <= Len(s)
        /\ \A k \in 1..Len(q) : Lower(q[k]) = Lower(s[i + k - 1])

\* C12: the candidate set of the name filter is exactly the records of the
\* snapshot whose name has the query as a case-insensitive substring, in
\* snapshot order; symbol and id play no part. str.contains takes the query
\* as a regular expression, so "." matches names that do not contain a dot:
\* violated.
C12_SubstringFilter ==
    FilterRan =>
        candidates.rows = SelectSeq(df.rows, LAMBDA r : IsSubstring(coin_name, r.name))

\* The text typed is empty or consists of blanks only.
AllBlank(t) == \A k \in 1..Len(t) : t[k] = " "

\* C13: the empty query, and a query of blanks only (stripped to empty), make
\* the candidate set the snapshot itself - the same records in the same
\* order - and the filter raises nothing, whatever the snapshot.
C13_EmptyQueryYieldsAll ==
    AllBlank(typed) =>
        /\ FilterRan => (coin_name = <<>> /\ candidates = df)
        /\ pc = "crashed" => "detail" \in shown

\* Two blanks were typed and all three records are candidates, in order.
C13_Witness ==
    /\ typed = <<" ", " ">>
    /\ FilterRan
    /\ candidates.rows = <<Bit, Eth, BitC>>

\* C14: in the trend sections of one pass a window whose fetch failed (the
\* empty result) neither ends the pass nor keeps the script from the next
\* window, and a window whose own fetch returned a series is drawn, whatever
\* happened to the windows before it; a pass that ended with no failed fetch
\* has drawn all five.
C14_WindowsIndependent ==
    [][ /\ (pc = "hist_ret" /\ call.failed) =>
              /\ call.dict = EmptyDict
              /\ pc' # "crashed"
              /\ populated' = populated
              /\ IF win < Len(Windows)
                 THEN /\ pc' = "hist_wait"
                      /\ win' = win + 1
                      /\ call'.days = Windows[win + 1]
                      /\ call'.coin_id = call.coin_id
                      /\ requested' = requested \cup {Windows[win + 1]}
                 ELSE pc' = "done"
        /\ (pc = "hist_ret" /\ "prices" \in call.dict.keys) =>
              /\ populated' = populated \cup {call.days}
              /\ pc' # "crashed"
        /\ (pc' = "done" /\ "detail" \in shown' /\ "history_error" \notin shown') =>
              populated' = AllWindows
      ]_vars

\* The pass ended with the 30-day fetch failed and every other window drawn.
C14_Witness ==
    /\ pc = "done"
    /\ "history_error" \in shown
    /\ populated = AllWindows \ {30}

\* Position of a record in the snapshot (ids are unique in a snapshot).
Pos(rows, id) == CHOOSE k \in 1..Len(rows) : rows[k].id = id

\* The record of the snapshot is matched by the name filter as the code runs it.
Matched(r) == coin_name = <<>> \/ Contains(coin_name, r.name)

\* Windows requested so far are the first `win` of the script's order.
RequestedPrefix == requested = { Windows[k] : k \in 1..win }

\* C15: when the query matches several records, the selectbox offers exactly
\* the matched records, in snapshot order; the entry in effect, of id X,
\* reduces the resolved set to the one record of the snapshot whose id is X;
\* every historical call of the pass is for X, the windows are requested in
\* script order, and a pass that reaches its last line has requested all.
C15_Disambiguation ==
    (FilterRan /\ Len(candidates.rows) > 1) =>
        /\ "selectbox" \in shown
        /\ \A j \in 1..Len(coin_options) :
               /\ \E k \in 1..Len(df.rows) : Entry(df.rows[k]) = coin_options[j]
               /\ Matched(coin_options[j])
               /\ DOMAIN coin_options[j] = {"id", "name", "symbol"}
        /\ \A k \in 1..Len(df.rows) :
               Matched(df.rows[k]) =>
                   \E j \in 1..Len(coin_options) : coin_options[j] = Entry(df.rows[k])
        /\ \A j, k \in 1..Len(coin_options) :
               j < k => Pos(df.rows, coin_options[j].id) < Pos(df.rows, coin_options[k].id)
        /\ \E j \in 1..Len(coin_options) : coin_options[j].id = selected_coin_id
        /\ Len(filtered_df.rows) = 1
        /\ filtered_df.rows[1] = df.rows[Pos(df.rows, selected_coin_id)]
        /\ filtered_df.rows[1].id = selected_coin_id
        /\ call.fn = "historical" => call.coin_id = selected_coin_id
        /\ RequestedPrefix
        /\ pc = "done" => requested = AllWindows

\* The user picked the second of two entries and the pass fetched its windows.
C15_Witness ==
    /\ pc = "done"
    /\ selectbox = "chosen"
    /\ coin_options = <<Entry(Bit), Entry(BitC)>>
    /\ selected_coin_id = BitC.id
    /\ filtered_df.rows = <<BitC>>
    /\ requested = AllWindows

\* C16: a pass with one selected coin requests the windows 1, 7, 30, 180, 365
\* in that order, each for the selected coin, the first with interval
\* 'minute' and the others with 'daily'; a request beyond one per window is
\* the retry of a 429, so a pass without 429 that reaches its last line has
\* issued exactly five; the 1 hour trend issues no request and draws the
\* sparkline of the selected record of the cached snapshot.
C16_FiveRequestsInOrder ==
    "detail" \in shown =>
        /\ Len(filtered_df.rows) = 1
        /\ sparkline_data = filtered_df.rows[1].sparkline
        /\ \E k \in 1..Len(cache.value.rows) : cache.value.rows[k] = filtered_df.rows[1]
        /\ win \in 1..Len(Windows)
        /\ RequestedPrefix
        /\ call.fn = "historical" =>
               /\ call.days = Windows[win]
               /\ call.coin_id = filtered_df.rows[1].id
               /\ call.interval = (IF call.days = 1 THEN "minute" ELSE "daily")
        /\ histReqs >= win
        /\ histReqs <= win + throttled
        /\ pc = "done" => win = Len(Windows)

\* A pass without any 429 ended after exactly five historical requests.
C16_Witness ==
    /\ pc = "done"
    /\ throttled = 0
    /\ histReqs = 5
    /\ requested = AllWindows
    /\ sparkline_data = Eth.sparkline
    /\ populated = AllWindows

\* Requests of the call in progress that have not been answered.
InFlight == call.reqs - Len(call.resps)

\* C17: requests are strictly sequential - at most one request is unanswered
\* at any time, and it is the one the script is blocked on; during a backoff
\* sleep every request issued has been answered and none is in flight; a
\* fetch function that has returned leaves none behind; and historical
\* requests are issued only after the snapshot of the pass has been obtained.
C17_Sequential ==
    /\ InFlight \in {0, 1}
    /\ InFlight = 1 <=> wire \in {"pending", "lost"}
    /\ wire # "none" => (pc \in {"snap_wait", "hist_wait"} /\ ~call.returned)
    /\ pc \in {"snap_sleep", "hist_sleep"} => (InFlight = 0 /\ ~call.returned)
    /\ call.returned => InFlight = 0
    /\ pc \in {"snap_wait", "snap_sleep"} =>
           (call.fn = "snapshot" /\ histReqs = 0 /\ requested = {})
    /\ (histReqs > 0 \/ call.fn = "historical") =>
           (AfterRead /\ cache.present /\ df = cache.value /\ cache.storedAt <= now)

\* The second backoff sleep of a historical call: nothing in flight.
C17_Witness ==
    /\ pc = "hist_sleep"
    /\ call.sleeps = 1
    /\ call.reqs = 2
    /\ wire = "none"
    /\ histReqs > 2

\* C18: a failed snapshot fetch is memoised like a successful one - the empty
\* frame it returns becomes the cache entry, and every pass that reads the
\* snapshot before the entry is TTL old gets the empty frame with no call of
\* the function body and no request, whatever the upstream would answer.
C18_FailureMemoised ==
    [][ /\ (pc \in {"snap_wait", "snap_sleep"} /\ pc' = "filter" /\ call'.failed) =>
              /\ df' = EmptyDF
              /\ cache' = [present |-> TRUE, value |-> EmptyDF, storedAt |-> now',
                           failed |-> TRUE]
        /\ (passes' = passes + 1 /\ cache.present /\ cache.failed
               /\ now' < cache.storedAt + TTL) =>
              /\ df' = EmptyDF
              /\ cache' = cache
              /\ call' = NoCall
              /\ wire' = "none"
              /\ pc' = "filter"
      ]_vars

\* The second pass was served the empty frame of the first pass's failure.
C18_Witness ==
    /\ passes = 2
    /\ pc = "filter"
    /\ call = NoCall
    /\ cache.failed
    /\ df = EmptyDF
    /\ readAt = cache.storedAt + TTL - Backoff

\* C19: every historical request carries the id of a record of the snapshot of
\* the pass, and with a non-empty query that record's name contains the query
\* case-insensitively. The filter matches the query as a regular expression
\* (see C12), so the record requested for the query "." has no dot in its
\* name: violated.
C19_RequestWithinMatches ==
    call.fn = "historical" =>
        \E k \in 1..Len(df.rows) :
            /\ df.rows[k].id = call.coin_id
            /\ coin_name # <<>> => IsSubstring(coin_name, df.rows[k].name)

====
